---- MODULE Spec2Model ----
(***************************************************************************)
(* Matrixle: the feedback classifier, the validator, the digit tracker,    *)
(* the win detector (lib/validation.ts, lib/feedback.ts), the session      *)
(* hook (hooks/useGameState.ts) and the rows that feed it                  *)
(* (components/GuessRow.tsx, components/GameBoard.tsx).                    *)
(*                                                                         *)
(* The specifications sharing the module:                                  *)
(*   SpecFeedback    runs generateFeedback one loop iteration at a time on *)
(*                   every guess over a bounded digit set and every puzzle *)
(*                   of a pool, then isWinningGuess;                       *)
(*   Spec            is the game session as the player drives it: typing   *)
(*                   into rows, the Submit button, the Enter key, Play     *)
(*                   Again;                                                *)
(*   SpecHook        is useGameState driven through submitGuess and        *)
(*                   resetGame, whatever closure the call comes from;      *)
(*   SpecTracker     calls calculateDigitTracker on bounded guess lists;   *)
(*   SpecValidation  calls the functions of lib/validation.ts on bounded   *)
(*                   argument sets;                                        *)
(*   SpecDebounce    calls one debounced function of lib/input-utils.ts    *)
(*                   while a clock runs and its timers fire;               *)
(*   SpecBoard       is the session of Spec together with GameBoard's win  *)
(*                   modal: the player may also close the modal.           *)
(***************************************************************************)
EXTENDS Integers, Sequences, FiniteSets

VARIABLES
    \* ---- SpecFeedback: one call of generateFeedback(guess, target) ----
    fbGuess,        \* the guess argument (matrix, vector, result)
    fbTarget,       \* the target argument (matrix, vector, result)
    fbPc,           \* "idle" | "pass1" | "pass2" | "returned"
    fbI,            \* the loop variable i of the running pass
    feedback,       \* const feedback = new Array(8)
    targetUsed,     \* const targetUsed = new Array(8).fill(false)
    fbWin,          \* isWinningGuess(guess, target), once returned
    \* ---- Spec: the session ----
    gameState,      \* useGameState's state: puzzle, guesses, currentGuess, status, digitTracker
    values,         \* values[r]: GuessRow r's eight cell strings
    errorMessage,   \* errorMessage[r]: GuessRow r's error message
    keyStatus,      \* keyStatus[r]: gameState.status as closed over by the submitGuess
                    \* that row r's memoised handleKeyDown reaches
    \* ---- SpecHook: useGameState driven through its two callbacks ----
    hookCall,       \* the last call of submitGuess or resetGame: the callback, the
                    \* status its closure holds, and the state the call replaced
    \* ---- SpecTracker: calculateDigitTracker(guesses) ----
    trGuesses,      \* the guesses argument
    trStatus,       \* the digitStatus map returned for it
    \* ---- SpecValidation: one call of a function of lib/validation.ts ----
    valCall,        \* the function called, its arguments and what it returned
    \* ---- SpecDebounce: one debounced function of lib/input-utils.ts ----
    deb,            \* the clock, the pending timers, timeoutId, and the record of
                    \* the last call and of the executions of func since
    \* ---- SpecBoard: GameBoard's modal state ----
    board           \* showWinModal and modalClosedManually

fbVars == <<fbGuess, fbTarget, fbPc, fbI, feedback, targetUsed, fbWin>>
sessionVars == <<gameState, values, errorMessage, keyStatus>>
rowVars == <<values, errorMessage, keyStatus>>
callVars == <<hookCall, trGuesses, trStatus, valCall, deb, board>>
vars == <<fbGuess, fbTarget, fbPc, fbI, feedback, targetUsed, fbWin,
          gameState, values, errorMessage, keyStatus, hookCall,
          trGuesses, trStatus, valCall, deb, board>>

(***************************************************************************)
(* Bounds of the model.                                                    *)
(***************************************************************************)
\* SpecFeedback enumerates the guesses whose eight values lie in 1..MaxDigit.
MaxDigit == 2
\* SpecTracker calls calculateDigitTracker on lists of up to MaxTrackedGuesses guesses.
MaxTrackedGuesses == 2
\* The session stops accepting appends once the history holds MaxHistory guesses.
MaxHistory == 7
\* SpecValidation hands isValidDigit and isValidGameInput the strings of up
\* to MaxStringLen characters.
MaxStringLen == 2
\* SpecDebounce runs the clock from 0 to MaxTime.
MaxTime == 4
\* Besides the first open row, at most MaxDraftRows rows differ from what the
\* history accounts for (left behind by a later submission, or typed ahead,
\* and then no more than MaxDraftRows rows ahead of the first open row).
MaxDraftRows == 0

(***************************************************************************)
(* Program constants.                                                      *)
(***************************************************************************)
\* for (let i = 0; i < 8; i++): the eight canonical positions a..h
NumPositions == 8
\* Array.from({ length: 6 }) rows; newGuesses.length >= 6 ends the game
MaxGuesses == 6

Positions == 0 .. (NumPositions - 1)
Rows == 0 .. (MaxGuesses - 1)

Min(S) == CHOOSE x \in S : \A y \in S : x <= y

(***************************************************************************)
(* types/game.ts                                                           *)
(***************************************************************************)
\* Matrix2x2, Vector2x1, Result2x1 carried together (a guess input, a puzzle)
MkTriple(a, b, c, d, e, f, g, h) ==
    [matrix |-> [a |-> a, b |-> b, c |-> c, d |-> d],
     vector |-> [e |-> e, f |-> f],
     result |-> [g |-> g, h |-> h]]

FeedbackColor == {"correct", "wrong-position", "not-in-puzzle"}

\* const TEST_PUZZLE (id and date play no part in any computation)
TEST_PUZZLE == MkTriple(2, 1, 1, 3, 3, 2, 8, 9)

(***************************************************************************)
(* lib/feedback.ts                                                         *)
(***************************************************************************)
\* const guessArray = [guess.matrix.a, ..., guess.result.h], indexed 0..7
AsArray(t) ==
    [i \in Positions |->
        CASE i = 0 -> t.matrix.a [] i = 1 -> t.matrix.b
          [] i = 2 -> t.matrix.c [] i = 3 -> t.matrix.d
          [] i = 4 -> t.vector.e [] i = 5 -> t.vector.f
          [] i = 6 -> t.result.g [] i = 7 -> t.result.h]

\* new Array(8): eight holes; new Array(8).fill(false)
EmptyFeedback == [i \in Positions |-> "undefined"]
NoneUsed == [i \in Positions |-> FALSE]

\* A single-loop classifier body: an exact match or, at once, a wrong-position match.
FirstPassBodyOnePass(guessArray, targetArray, i, st) ==
    IF guessArray[i] = targetArray[i]
    THEN [feedback |-> [st.feedback EXCEPT ![i] = "correct"],
          targetUsed |-> [st.targetUsed EXCEPT ![i] = TRUE]]
    ELSE LET found == {idx \in Positions :
                          targetArray[idx] = guessArray[i] /\ ~st.targetUsed[idx]}
         IN  IF found # {}
             THEN [feedback |-> [st.feedback EXCEPT ![i] = "wrong-position"],
                   targetUsed |-> [st.targetUsed EXCEPT ![Min(found)] = TRUE]]
             ELSE [feedback |-> [st.feedback EXCEPT ![i] = "not-in-puzzle"],
                   targetUsed |-> st.targetUsed]

\* Body of the first loop for one i: mark an exact position match.
FirstPassBody(guessArray, targetArray, i, st) ==
    IF guessArray[i] = targetArray[i]
    THEN [feedback |-> [st.feedback EXCEPT ![i] = "correct"],
          targetUsed |-> [st.targetUsed EXCEPT ![i] = TRUE]]
    ELSE st

\* A search that looks at the first occurrence of the digit only
\* (targetArray.indexOf(guessArray[i]), given up when that one is used).
FindIndexFirstOccurrence(guessArray, targetArray, i, used) ==
    LET found == {idx \in Positions : targetArray[idx] = guessArray[i]}
    IN  IF found = {} \/ used[Min(found)] THEN -1 ELSE Min(found)

\* targetArray.findIndex((digit, idx) => digit === guessArray[i] && !targetUsed[idx])
FindIndex(guessArray, targetArray, i, used) ==
    LET found == {idx \in Positions : targetArray[idx] = guessArray[i] /\ ~used[idx]}
    IN  IF found = {} THEN -1 ELSE Min(found)

\* The second loop without its "if (feedback[i] !== 'correct')" test.
SecondPassBodyNoGuard(guessArray, targetArray, i, st) ==
    LET foundIndex == FindIndex(guessArray, targetArray, i, st.targetUsed)
    IN  IF foundIndex # -1
        THEN [feedback |-> [st.feedback EXCEPT ![i] = "wrong-position"],
              targetUsed |-> [st.targetUsed EXCEPT ![foundIndex] = TRUE]]
        ELSE [feedback |-> [st.feedback EXCEPT ![i] = "not-in-puzzle"],
              targetUsed |-> st.targetUsed]

\* The second loop without "targetUsed[foundIndex] = true".
SecondPassBodyNoConsume(guessArray, targetArray, i, st) ==
    IF st.feedback[i] # "correct"
    THEN LET foundIndex == FindIndex(guessArray, targetArray, i, st.targetUsed)
         IN  IF foundIndex # -1
             THEN [feedback |-> [st.feedback EXCEPT ![i] = "wrong-position"],
                   targetUsed |-> st.targetUsed]
             ELSE [feedback |-> [st.feedback EXCEPT ![i] = "not-in-puzzle"],
                   targetUsed |-> st.targetUsed]
    ELSE st

\* Body of the second loop for one i: mark a wrong-position match or none.
SecondPassBody(guessArray, targetArray, i, st) ==
    IF st.feedback[i] # "correct"
    THEN LET foundIndex == FindIndex(guessArray, targetArray, i, st.targetUsed)
         IN  IF foundIndex # -1
             THEN [feedback |-> [st.feedback EXCEPT ![i] = "wrong-position"],
                   targetUsed |-> [st.targetUsed EXCEPT ![foundIndex] = TRUE]]
             ELSE [feedback |-> [st.feedback EXCEPT ![i] = "not-in-puzzle"],
                   targetUsed |-> st.targetUsed]
    ELSE st

RECURSIVE FirstPass(_, _, _, _)
FirstPass(guessArray, targetArray, i, st) ==
    IF i >= NumPositions THEN st
    ELSE FirstPass(guessArray, targetArray, i + 1,
                   FirstPassBody(guessArray, targetArray, i, st))

RECURSIVE SecondPass(_, _, _, _)
SecondPass(guessArray, targetArray, i, st) ==
    IF i >= NumPositions THEN st
    ELSE SecondPass(guessArray, targetArray, i + 1,
                    SecondPassBody(guessArray, targetArray, i, st))

generateFeedback(guess, target) ==
    LET guessArray == AsArray(guess)
        targetArray == AsArray(target)
        st0 == [feedback |-> EmptyFeedback, targetUsed |-> NoneUsed]
        st1 == FirstPass(guessArray, targetArray, 0, st0)
        st2 == SecondPass(guessArray, targetArray, 0, st1)
    IN  st2.feedback

\* A six-position win detector: the result cells are not compared.
isWinningGuessNoResult(guess, target) ==
    /\ guess.matrix.a = target.matrix.a
    /\ guess.matrix.b = target.matrix.b
    /\ guess.matrix.c = target.matrix.c
    /\ guess.matrix.d = target.matrix.d
    /\ guess.vector.e = target.vector.e
    /\ guess.vector.f = target.vector.f

isWinningGuess(guess, target) ==
    /\ guess.matrix.a = target.matrix.a
    /\ guess.matrix.b = target.matrix.b
    /\ guess.matrix.c = target.matrix.c
    /\ guess.matrix.d = target.matrix.d
    /\ guess.vector.e = target.vector.e
    /\ guess.vector.f = target.vector.f
    /\ guess.result.g = target.result.g
    /\ guess.result.h = target.result.h

(***************************************************************************)
(* JavaScript values reaching the validator: an integer (Num), a number    *)
(* that is no integer (NaN, or n + 0.5 as Frac(n)), undefined or null.     *)
(***************************************************************************)
Num(n) == [t |-> "number", v |-> n]
NaN == [t |-> "NaN", v |-> 0]
Frac(n) == [t |-> "fraction", v |-> n]
Undefined == [t |-> "undefined", v |-> 0]
Null == [t |-> "null", v |-> 0]
\* A string, as the sequence of its characters
Str(chars) == [t |-> "string", v |-> 0, s |-> chars]

DigitChars == <<"0", "1", "2", "3", "4", "5", "6", "7", "8", "9">>
DigitKeys == {DigitChars[k] : k \in 1 .. 10}

\* parseInt(s) of a cell string: '' gives NaN, a one-digit string its digit
parseInt(s) ==
    IF s \in DigitKeys
    THEN Num((CHOOSE k \in 1 .. 10 : DigitChars[k] = s) - 1)
    ELSE NaN

\* digit.toString() of a digit 0..9
toString(n) == DigitChars[n + 1]

\* String.prototype.trim(): the characters without leading and trailing white space
WhiteSpace == {" "}
RECURSIVE TrimStart(_)
TrimStart(chars) ==
    IF chars # <<>> /\ Head(chars) \in WhiteSpace THEN TrimStart(Tail(chars)) ELSE chars
RECURSIVE TrimEnd(_)
TrimEnd(chars) ==
    IF chars # <<>> /\ chars[Len(chars)] \in WhiteSpace
    THEN TrimEnd(SubSeq(chars, 1, Len(chars) - 1))
    ELSE chars
trim(chars) == TrimEnd(TrimStart(chars))

(***************************************************************************)
(* lib/validation.ts                                                       *)
(***************************************************************************)
\* The arithmetic check without its second row: h is never compared.
validateMatrixMultiplicationTopOnly(matrix, vector, result) ==
    LET calculatedG == matrix.a.v * vector.e.v + matrix.b.v * vector.f.v
    IN  calculatedG = result.g.v

\* The arithmetic check with the results held to one digit.
validateMatrixMultiplicationDigitsOnly(matrix, vector, result) ==
    LET calculatedG == matrix.a.v * vector.e.v + matrix.b.v * vector.f.v
        calculatedH == matrix.c.v * vector.e.v + matrix.d.v * vector.f.v
    IN  /\ calculatedG = result.g.v /\ calculatedH = result.h.v
        /\ result.g.v <= 9 /\ result.h.v <= 9

\* matrix, vector and result hold integers here: validateCompleteGuess calls it
\* after validateMatrixInputs passed, and SpecValidation on integers only.
validateMatrixMultiplication(matrix, vector, result) ==
    LET calculatedG == matrix.a.v * vector.e.v + matrix.b.v * vector.f.v
        calculatedH == matrix.c.v * vector.e.v + matrix.d.v * vector.f.v
    IN  calculatedG = result.g.v /\ calculatedH = result.h.v

\* The number branch of isValidDigit without its upper bound
isValidDigitNoUpperBound(input) ==
    /\ input.t = "number"
    /\ input.v >= 0

\* An isValidDigit that does not trim its string argument
isValidDigitNoTrim(input) ==
    IF input.t \in {"number", "NaN", "fraction"}
    THEN input.t = "number" /\ input.v >= 0 /\ input.v <= 9
    ELSE IF input.t = "string"
    THEN IF Len(input.s) # 1 THEN FALSE
         ELSE LET num == parseInt(input.s[1])
              IN  num.t # "NaN" /\ num.v >= 0 /\ num.v <= 9
    ELSE FALSE

\* typeof input === 'number': Number.isInteger holds of the Num values only
\* (NaN and n + 0.5 are numbers that are no integers); typeof input ===
\* 'string': the trimmed text is one character that parseInt reads as 0..9;
\* anything else (undefined, null) is no digit.
isValidDigit(input) ==
    IF input.t \in {"number", "NaN", "fraction"}
    THEN input.t = "number" /\ input.v >= 0 /\ input.v <= 9
    ELSE IF input.t = "string"
    THEN LET trimmed == trim(input.s)
         IN  IF Len(trimmed) # 1 THEN FALSE
             ELSE LET num == parseInt(trimmed[1])
                  IN  num.t # "NaN" /\ num.v >= 0 /\ num.v <= 9
    ELSE FALSE

\* A forEach body that reports every defect as a missing field.
FieldErrorsAlwaysRequired(kind, label, value) ==
    IF value.t \in {"undefined", "null"} \/ ~isValidDigit(value)
    THEN <<kind \o " position " \o label \o " is required">>
    ELSE <<>>

\* one forEach body: the defect of one field, or none
FieldErrors(kind, label, value) ==
    IF value.t \in {"undefined", "null"}
    THEN <<kind \o " position " \o label \o " is required">>
    ELSE IF ~isValidDigit(value)
    THEN <<kind \o " position " \o label \o " must be a digit 0-9">>
    ELSE <<>>

validateMatrixInputs(matrix, vector, result) ==
    LET errors ==
            FieldErrors("Matrix", "a", matrix.a) \o FieldErrors("Matrix", "b", matrix.b)
         \o FieldErrors("Matrix", "c", matrix.c) \o FieldErrors("Matrix", "d", matrix.d)
         \o FieldErrors("Vector", "e", vector.e) \o FieldErrors("Vector", "f", vector.f)
         \o FieldErrors("Result", "g", result.g) \o FieldErrors("Result", "h", result.h)
    IN  [isValid |-> Len(errors) = 0, errors |-> errors]

validateCompleteGuess(matrix, vector, result) ==
    LET inputValidation == validateMatrixInputs(matrix, vector, result)
    IN  IF ~inputValidation.isValid
        THEN inputValidation
        ELSE IF ~validateMatrixMultiplication(matrix, vector, result)
        THEN [isValid |-> FALSE, errors |-> <<"The math doesn't work out! Try again.">>]
        ELSE [isValid |-> TRUE, errors |-> <<>>]

\* Whether validateCompleteGuess gets past its early return to the arithmetic.
ReachesArithmetic(matrix, vector, result) ==
    validateMatrixInputs(matrix, vector, result).isValid

(***************************************************************************)
(* lib/input-utils.ts                                                      *)
(***************************************************************************)
\* /^[0-9]$/.test(input)
isValidGameInput(chars) ==
    Len(chars) = 1 /\ chars[1] \in DigitKeys

(***************************************************************************)
(* lib/feedback.ts: calculateDigitTracker                                  *)
(***************************************************************************)
\* const digitStatus = {}: no key has a value
EmptyTracker == [k \in DigitKeys |-> "undefined"]

\* for (let i = 1; i <= 9; i++) digitStatus[i.toString()] = 'not-in-puzzle'
InitialDigitStatus ==
    [k \in DigitKeys |-> IF k \in {toString(i) : i \in 1 .. 9}
                         THEN "not-in-puzzle" ELSE "undefined"]

\* The fold that stores every label it meets: the last observation wins.
RECURSIVE TrackGuessLastWins(_, _, _)
TrackGuessLastWins(digitStatus, guess, index) ==
    IF index >= NumPositions THEN digitStatus
    ELSE LET digitStr == toString(AsArray(guess)[index])
             currentStatus == digitStatus[digitStr]
         IN  IF currentStatus = guess.feedback[index]
             THEN TrackGuessLastWins(digitStatus, guess, index + 1)
             ELSE TrackGuessLastWins(
                      [digitStatus EXCEPT ![digitStr] = guess.feedback[index]],
                      guess, index + 1)

\* A forEach body that stores 'correct' only
RECURSIVE TrackGuessCorrectOnly(_, _, _)
TrackGuessCorrectOnly(digitStatus, guess, index) ==
    IF index >= NumPositions THEN digitStatus
    ELSE LET digitStr == toString(AsArray(guess)[index])
             currentStatus == digitStatus[digitStr]
             newStatus == guess.feedback[index]
         IN  IF currentStatus # "correct" /\ newStatus = "correct"
             THEN TrackGuessCorrectOnly([digitStatus EXCEPT ![digitStr] = newStatus],
                                        guess, index + 1)
             ELSE TrackGuessCorrectOnly(digitStatus, guess, index + 1)

\* guessArray.forEach((digit, index) => ...), from index on
RECURSIVE TrackGuess(_, _, _)
TrackGuess(digitStatus, guess, index) ==
    IF index >= NumPositions THEN digitStatus
    ELSE LET digitStr == toString(AsArray(guess)[index])
             currentStatus == digitStatus[digitStr]
             newStatus == guess.feedback[index]
             \* newStatus === 'correct' ||
             \* (newStatus === 'wrong-position' && currentStatus === 'not-in-puzzle'),
             \* with currentStatus read first, as the code reads it before the test
             upgrade == IF currentStatus = "not-in-puzzle"
                        THEN newStatus \in {"correct", "wrong-position"}
                        ELSE newStatus = "correct"
         IN  IF upgrade
             THEN TrackGuess([digitStatus EXCEPT ![digitStr] = newStatus],
                             guess, index + 1)
             ELSE TrackGuess(digitStatus, guess, index + 1)

\* guesses.forEach(guess => ...), from the n-th guess on
RECURSIVE TrackGuesses(_, _, _)
TrackGuesses(digitStatus, guesses, n) ==
    IF n > Len(guesses) THEN digitStatus
    ELSE TrackGuesses(TrackGuess(digitStatus, guesses[n], 0), guesses, n + 1)

calculateDigitTracker(guesses) == TrackGuesses(InitialDigitStatus, guesses, 1)

(***************************************************************************)
(* components/DigitTracker.tsx                                             *)
(***************************************************************************)
\* The status read from a digitStatus map: digitStatus[digit] || 'not-in-puzzle'
StatusOf(map, d) ==
    IF map[toString(d)] = "undefined" THEN "not-in-puzzle" ELSE map[toString(d)]

(***************************************************************************)
(* SpecFeedback: generateFeedback, one loop iteration per step, on every   *)
(* guess over 1..MaxDigit against every puzzle of PuzzlePool.              *)
(***************************************************************************)
FromArray(arr) ==
    MkTriple(arr[0], arr[1], arr[2], arr[3], arr[4], arr[5], arr[6], arr[7])

GuessDomain == {FromArray(arr) : arr \in [Positions -> 1 .. MaxDigit]}

\* TEST_PUZZLE, the duplicate-digit puzzle of feedback.test.ts, and two
\* self-consistent puzzles over low digits with many repeated values.
PuzzlePool ==
    { TEST_PUZZLE,
      MkTriple(1, 1, 2, 3, 4, 5, 9, 2),
      MkTriple(1, 1, 1, 1, 1, 1, 2, 2),
      MkTriple(2, 1, 1, 2, 1, 1, 3, 3) }

\* The session before the first render of any row: used to park the session
\* variables under SpecFeedback.
EmptyRow == [p \in Positions |-> ""]

InitialGameState ==
    [puzzle |-> TEST_PUZZLE,
     guesses |-> <<>>,
     currentGuess |-> 0,
     status |-> "playing",
     digitTracker |-> EmptyTracker]

SessionInit ==
    /\ gameState = InitialGameState
    /\ values = [r \in Rows |-> EmptyRow]
    /\ errorMessage = [r \in Rows |-> ""]
    /\ keyStatus = [r \in Rows |-> "playing"]

FbIdle ==
    /\ fbGuess = TEST_PUZZLE
    /\ fbTarget = TEST_PUZZLE
    /\ fbPc = "idle"
    /\ fbI = 0
    /\ feedback = EmptyFeedback
    /\ targetUsed = NoneUsed
    /\ fbWin = FALSE

\* No call of the hook's callbacks on record.
NoCall == [fn |-> "none", closureStatus |-> "none", prev |-> InitialGameState]
HookIdle == hookCall = NoCall
TrackerIdle ==
    /\ trGuesses = <<>>
    /\ trStatus = calculateDigitTracker(<<>>)

\* No call of the validator on record.
NoResult == [isValid |-> FALSE, errors |-> <<>>]
NoArgs ==
    [matrix |-> [a |-> Undefined, b |-> Undefined, c |-> Undefined, d |-> Undefined],
     vector |-> [e |-> Undefined, f |-> Undefined],
     result |-> [g |-> Undefined, h |-> Undefined]]
NoValidation ==
    [fn |-> "none", args |-> NoArgs, input |-> Undefined,
     out |-> NoResult, ok |-> FALSE, reachedMath |-> FALSE]
ValidationIdle == valCall = NoValidation

\* No debounced function created.
NoTimer == [at |-> 0 - 1, args |-> 0]
NoDebounce ==
    [delay |-> 0, now |-> 0, timers |-> {}, timeoutId |-> NoTimer,
     called |-> FALSE, cancelled |-> FALSE, lastCallAt |-> 0, lastArgs |-> 0,
     execsSinceCall |-> 0, lastExecAt |-> 0, lastExecArgs |-> 0]
DebounceIdle == deb = NoDebounce

\* GameBoard's useState(false) twice: no modal shown, none closed by hand
InitialBoard == [showWinModal |-> FALSE, modalClosedManually |-> FALSE]
BoardIdle == board = InitialBoard

CallsIdle == HookIdle /\ TrackerIdle /\ ValidationIdle /\ DebounceIdle /\ BoardIdle

InitFeedback ==
    /\ fbGuess \in GuessDomain
    /\ fbTarget \in PuzzlePool
    /\ fbPc = "pass1"
    /\ fbI = 0
    /\ feedback = EmptyFeedback
    /\ targetUsed = NoneUsed
    /\ fbWin = FALSE
    /\ SessionInit
    /\ CallsIdle

\* for (let i = 0; i < 8; i++) { if (guessArray[i] === targetArray[i]) ... }
FbFirstPassStep ==
    /\ fbPc = "pass1"
    /\ LET st == FirstPassBody(AsArray(fbGuess), AsArray(fbTarget), fbI,
                               [feedback |-> feedback, targetUsed |-> targetUsed])
       IN  /\ feedback' = st.feedback
           /\ targetUsed' = st.targetUsed
    /\ IF fbI + 1 < NumPositions
       THEN fbI' = fbI + 1 /\ fbPc' = "pass1"
       ELSE fbI' = 0 /\ fbPc' = "pass2"
    /\ UNCHANGED <<fbGuess, fbTarget, fbWin>>
    /\ UNCHANGED sessionVars
    /\ UNCHANGED callVars

\* for (let i = 0; i < 8; i++) { if (feedback[i] !== 'correct') ... }; return feedback
FbSecondPassStep ==
    /\ fbPc = "pass2"
    /\ LET st == SecondPassBody(AsArray(fbGuess), AsArray(fbTarget), fbI,
                                [feedback |-> feedback, targetUsed |-> targetUsed])
       IN  /\ feedback' = st.feedback
           /\ targetUsed' = st.targetUsed
    /\ IF fbI + 1 < NumPositions
       THEN fbI' = fbI + 1 /\ fbPc' = "pass2"
       ELSE fbI' = NumPositions /\ fbPc' = "returned"
    /\ UNCHANGED <<fbGuess, fbTarget, fbWin>>
    /\ UNCHANGED sessionVars
    /\ UNCHANGED callVars

\* const isWin = isWinningGuess(guess, prev.puzzle), on the same two arguments
FbIsWinningGuess ==
    /\ fbPc = "returned"
    /\ fbWin' = isWinningGuess(fbGuess, fbTarget)
    /\ fbPc' = "checked"
    /\ UNCHANGED <<fbGuess, fbTarget, fbI, feedback, targetUsed>>
    /\ UNCHANGED sessionVars
    /\ UNCHANGED callVars

NextFeedback ==
    \/ FbFirstPassStep
    \/ FbSecondPassStep
    \/ FbIsWinningGuess

SpecFeedback == InitFeedback /\ [][NextFeedback]_vars

(***************************************************************************)
(* hooks/useGameState.ts                                                   *)
(***************************************************************************)
\* The updater with the two status tests in the other order: game over first.
submitGuessGameOverFirst(prev, closureStatus, closurePuzzle, guessInput) ==
    IF closureStatus # "playing" THEN prev
    ELSE LET guess == [matrix |-> guessInput.matrix,
                       vector |-> guessInput.vector,
                       result |-> guessInput.result,
                       feedback |-> generateFeedback(guessInput, closurePuzzle)]
             newGuesses == Append(prev.guesses, guess)
             newDigitTracker == calculateDigitTracker(newGuesses)
             isWin == isWinningGuess(guess, prev.puzzle)
             isGameOver == Len(newGuesses) >= MaxGuesses
             newStatus == IF isGameOver THEN "lost"
                          ELSE IF isWin THEN "won" ELSE "playing"
         IN  [puzzle |-> prev.puzzle,
              guesses |-> newGuesses,
              currentGuess |-> IF isWin \/ isGameOver
                               THEN prev.currentGuess ELSE prev.currentGuess + 1,
              status |-> newStatus,
              digitTracker |-> newDigitTracker]

\* The updater with "newGuesses.length > 6" for the game-over test.
submitGuessOffByOne(prev, closureStatus, closurePuzzle, guessInput) ==
    IF closureStatus # "playing" THEN prev
    ELSE LET guess == [matrix |-> guessInput.matrix,
                       vector |-> guessInput.vector,
                       result |-> guessInput.result,
                       feedback |-> generateFeedback(guessInput, closurePuzzle)]
             newGuesses == Append(prev.guesses, guess)
             newDigitTracker == calculateDigitTracker(newGuesses)
             isWin == isWinningGuess(guess, prev.puzzle)
             isGameOver == Len(newGuesses) > MaxGuesses
             newStatus == IF isWin THEN "won"
                          ELSE IF isGameOver THEN "lost" ELSE "playing"
         IN  [puzzle |-> prev.puzzle,
              guesses |-> newGuesses,
              currentGuess |-> IF isWin \/ isGameOver
                               THEN prev.currentGuess ELSE prev.currentGuess + 1,
              status |-> newStatus,
              digitTracker |-> newDigitTracker]

\* The updater patching the stored tracker with the new guess alone.
submitGuessPatchesTracker(prev, closureStatus, closurePuzzle, guessInput) ==
    IF closureStatus # "playing" THEN prev
    ELSE LET guess == [matrix |-> guessInput.matrix,
                       vector |-> guessInput.vector,
                       result |-> guessInput.result,
                       feedback |-> generateFeedback(guessInput, closurePuzzle)]
             newGuesses == Append(prev.guesses, guess)
             newDigitTracker == TrackGuess(prev.digitTracker, guess, 0)
             isWin == isWinningGuess(guess, prev.puzzle)
             isGameOver == Len(newGuesses) >= MaxGuesses
             newStatus == IF isWin THEN "won"
                          ELSE IF isGameOver THEN "lost" ELSE "playing"
         IN  [puzzle |-> prev.puzzle,
              guesses |-> newGuesses,
              currentGuess |-> IF isWin \/ isGameOver
                               THEN prev.currentGuess ELSE prev.currentGuess + 1,
              status |-> newStatus,
              digitTracker |-> newDigitTracker]

\* submitGuess(guessInput), called through a callback whose closure holds
\* gameState.status = closureStatus and gameState.puzzle = closurePuzzle
\* (the values of the render that created the callback), applied to prev,
\* the state at the time of the call.  The value is the next state.
\* guess.timestamp = new Date() is read by nothing and is left out.
\* A submitGuess that puts the new guess at the head of the history.
submitGuessPrepends(prev, closureStatus, closurePuzzle, guessInput) ==
    IF closureStatus # "playing" THEN prev
    ELSE LET guess == [matrix |-> guessInput.matrix,
                       vector |-> guessInput.vector,
                       result |-> guessInput.result,
                       feedback |-> generateFeedback(guessInput, closurePuzzle)]
             newGuesses == <<guess>> \o prev.guesses
             newDigitTracker == calculateDigitTracker(newGuesses)
             isWin == isWinningGuess(guess, prev.puzzle)
             isGameOver == Len(newGuesses) >= MaxGuesses
             newStatus == IF isWin THEN "won"
                          ELSE IF isGameOver THEN "lost" ELSE "playing"
         IN  [puzzle |-> prev.puzzle,
              guesses |-> newGuesses,
              currentGuess |-> IF isWin \/ isGameOver
                               THEN prev.currentGuess ELSE prev.currentGuess + 1,
              status |-> newStatus,
              digitTracker |-> newDigitTracker]

\* A submitGuess whose win test reads another puzzle than its feedback does.
submitGuessWinAgainstOther(prev, closureStatus, closurePuzzle, guessInput) ==
    IF closureStatus # "playing" THEN prev
    ELSE LET guess == [matrix |-> guessInput.matrix,
                       vector |-> guessInput.vector,
                       result |-> guessInput.result,
                       feedback |-> generateFeedback(guessInput, closurePuzzle)]
             newGuesses == Append(prev.guesses, guess)
             newDigitTracker == calculateDigitTracker(newGuesses)
             isWin == isWinningGuess(guess, MkTriple(2, 1, 0, 4, 2, 2, 6, 8))
             isGameOver == Len(newGuesses) >= MaxGuesses
             newStatus == IF isWin THEN "won"
                          ELSE IF isGameOver THEN "lost" ELSE "playing"
         IN  [puzzle |-> prev.puzzle,
              guesses |-> newGuesses,
              currentGuess |-> IF isWin \/ isGameOver
                               THEN prev.currentGuess ELSE prev.currentGuess + 1,
              status |-> newStatus,
              digitTracker |-> newDigitTracker]

submitGuess(prev, closureStatus, closurePuzzle, guessInput) ==
    IF closureStatus # "playing" THEN prev
    ELSE LET guess == [matrix |-> guessInput.matrix,
                       vector |-> guessInput.vector,
                       result |-> guessInput.result,
                       feedback |-> generateFeedback(guessInput, closurePuzzle)]
             newGuesses == Append(prev.guesses, guess)
             newDigitTracker == calculateDigitTracker(newGuesses)
             isWin == isWinningGuess(guess, prev.puzzle)
             isGameOver == Len(newGuesses) >= MaxGuesses
             newStatus == IF isWin THEN "won"
                          ELSE IF isGameOver THEN "lost" ELSE "playing"
         IN  [puzzle |-> prev.puzzle,
              guesses |-> newGuesses,
              currentGuess |-> IF isWin \/ isGameOver
                               THEN prev.currentGuess ELSE prev.currentGuess + 1,
              status |-> newStatus,
              digitTracker |-> newDigitTracker]

\* A reset that carries the digit tracker over.
resetGameKeepsTracker ==
    [InitialGameState EXCEPT !.digitTracker = gameState.digitTracker]

\* resetGame(): setGameState({ puzzle: TEST_PUZZLE, guesses: [], ... })
resetGame == InitialGameState

(***************************************************************************)
(* components/GameBoard.tsx, components/GuessRow.tsx                       *)
(***************************************************************************)
\* guessRows[index].isActive, .isSubmitted
isActive(r) == r = gameState.currentGuess /\ gameState.status = "playing"
isSubmitted(r) == r < Len(gameState.guesses)

\* Object.values(values).every(val => val !== '')
isComplete(vals) == \A p \in Positions : vals[p] # ""

\* The rows a player types: the puzzle itself, a consistent guess that is not
\* the puzzle, a guess whose second result cell is wrong, and no cell at all.
RowOf(arr) == [p \in Positions |-> toString(arr[p])]
WinRow == RowOf(AsArray(TEST_PUZZLE))
MissRow == RowOf(AsArray(MkTriple(2, 1, 0, 4, 2, 2, 6, 8)))
BadMathRow == RowOf(AsArray(MkTriple(2, 1, 0, 4, 2, 2, 6, 9)))
RowContents == {EmptyRow, WinRow, MissRow, BadMathRow}

\* const a = parseInt(values.a) ... const result = { g, h }
ParsedMatrix(vals) ==
    [a |-> parseInt(vals[0]), b |-> parseInt(vals[1]),
     c |-> parseInt(vals[2]), d |-> parseInt(vals[3])]
ParsedVector(vals) == [e |-> parseInt(vals[4]), f |-> parseInt(vals[5])]
ParsedResult(vals) == [g |-> parseInt(vals[6]), h |-> parseInt(vals[7])]

\* { matrix, vector, result } as handed to onSubmit: validated numbers
GuessInput(vals) ==
    MkTriple(parseInt(vals[0]).v, parseInt(vals[1]).v, parseInt(vals[2]).v,
             parseInt(vals[3]).v, parseInt(vals[4]).v, parseInt(vals[5]).v,
             parseInt(vals[6]).v, parseInt(vals[7]).v)

\* validateCompleteGuess(matrix, vector, result) on the row's parsed cells
RowValidation(vals) ==
    validateCompleteGuess(ParsedMatrix(vals), ParsedVector(vals), ParsedResult(vals))

\* handleSubmit reaches onSubmit for these cell values
PassesHandleSubmit(vals) == isComplete(vals) /\ RowValidation(vals).isValid

\* A handleSubmit that hands every complete row to onSubmit, validated or not.
handleSubmitSkipsValidation(r, closureStatus) ==
    LET vals == values[r]
    IN  IF ~isComplete(vals)
        THEN /\ errorMessage' = [errorMessage EXCEPT ![r] = "Please fill in all boxes"]
             /\ UNCHANGED <<gameState, values, keyStatus>>
        ELSE /\ closureStatus = "playing" => Len(gameState.guesses) < MaxHistory
             /\ gameState' = submitGuess(gameState, closureStatus,
                                         gameState.puzzle, GuessInput(vals))
             /\ UNCHANGED <<values, errorMessage, keyStatus>>

\* handleSubmit of row r, with onSubmit a submitGuess whose closure holds
\* status closureStatus (and the puzzle, which no render ever changes).
handleSubmit(r, closureStatus) ==
    LET vals == values[r]
    IN  IF ~isComplete(vals)
        THEN /\ errorMessage' = [errorMessage EXCEPT ![r] = "Please fill in all boxes"]
             /\ UNCHANGED <<gameState, values, keyStatus>>
        ELSE LET validation == RowValidation(vals)
             IN  IF ~validation.isValid
                 THEN /\ errorMessage' =
                            [errorMessage EXCEPT
                                ![r] = IF Len(validation.errors) > 0
                                       THEN validation.errors[1]
                                       ELSE "Invalid guess"]
                      /\ UNCHANGED <<gameState, values, keyStatus>>
                 ELSE /\ closureStatus = "playing" =>
                            Len(gameState.guesses) < MaxHistory
                      /\ gameState' = submitGuess(gameState, closureStatus,
                                                  gameState.puzzle, GuessInput(vals))
                      /\ UNCHANGED <<values, errorMessage, keyStatus>>

\* A row in the state the hook's history accounts for: untouched since it was
\* mounted, or submitted as the guess of its own index and untouched since.
Pristine(r) ==
    values[r] = EmptyRow /\ errorMessage[r] = "" /\ keyStatus[r] = "playing"
\* the cells vals read as the eight numbers of guess
ShowsGuess(vals, guess) ==
    /\ vals[0] = toString(guess.matrix.a) /\ vals[1] = toString(guess.matrix.b)
    /\ vals[2] = toString(guess.matrix.c) /\ vals[3] = toString(guess.matrix.d)
    /\ vals[4] = toString(guess.vector.e) /\ vals[5] = toString(guess.vector.f)
    /\ vals[6] = toString(guess.result.g) /\ vals[7] = toString(guess.result.h)
Settled(r) ==
    /\ r < Len(gameState.guesses)
    /\ errorMessage[r] = ""
    /\ keyStatus[r] = "playing"
    /\ ShowsGuess(values[r], gameState.guesses[r + 1])
\* The rows out of step with the history, the first open row (the one the
\* player is filling in) aside.
Drafts ==
    {r \in Rows : r # Len(gameState.guesses) /\ ~Pristine(r) /\ ~Settled(r)}
\* The player keeps no more than MaxDraftRows such rows, and types no more
\* than MaxDraftRows rows ahead of the first open row.
DraftBound ==
    /\ Cardinality(Drafts) <= MaxDraftRows
    /\ \A r \in Drafts : r <= Len(gameState.guesses) + MaxDraftRows

\* handleCellChange(position, value) of row r, as often as it takes to make the
\* row read newRow: InputCell lets through '' and one digit, and the cells of
\* a read-only (submitted) row never change.  Each call clears the row's error
\* and, values being among its deps, has the next render re-create the row's
\* handleKeyDown, which from then on reaches the submitGuess of that render.
HandleCellChange(r) ==
    /\ ~isSubmitted(r)
    /\ \E newRow \in RowContents :
          /\ newRow # values[r]
          /\ values' = [values EXCEPT ![r] = newRow]
    /\ errorMessage' = [errorMessage EXCEPT ![r] = ""]
    /\ keyStatus' = [keyStatus EXCEPT ![r] = gameState.status]
    /\ UNCHANGED gameState
    /\ UNCHANGED fbVars
    /\ UNCHANGED callVars
    /\ DraftBound'

\* The Submit button of row r: rendered for the active row only, disabled
\* until the row is complete; onClick is the handleSubmit of the last render.
ClickSubmit(r) ==
    /\ isActive(r)
    /\ isComplete(values[r])
    /\ handleSubmit(r, gameState.status)
    /\ UNCHANGED fbVars
    /\ UNCHANGED callVars
    /\ DraftBound'

\* Enter in any cell of row r: InputCell forwards the key to the row's
\* handleKeyDown, memoised on [values, navigationOrder] only, which calls the
\* handleSubmit (and through it the submitGuess) of the render that created it.
PressEnter(r) ==
    /\ handleSubmit(r, keyStatus[r])
    /\ UNCHANGED fbVars
    /\ UNCHANGED callVars
    /\ DraftBound'

\* handlePlayAgain: resetGame() and a new gameKey, which remounts the six rows
\* (empty cells, no error, handlers of the new render).  The button is
\* rendered once the status is no longer 'playing'.
PlayAgain ==
    /\ gameState.status # "playing"
    /\ gameState' = resetGame
    /\ values' = [r \in Rows |-> EmptyRow]
    /\ errorMessage' = [r \in Rows |-> ""]
    /\ keyStatus' = [r \in Rows |-> "playing"]
    /\ UNCHANGED fbVars
    /\ UNCHANGED callVars

Init == SessionInit /\ FbIdle /\ CallsIdle

\* The player: any cell edit, the Submit button, Enter in any row, Play Again.
Next ==
    \/ \E r \in Rows : HandleCellChange(r)
    \/ \E r \in Rows : ClickSubmit(r)
    \/ \E r \in Rows : PressEnter(r)
    \/ PlayAgain

Spec == Init /\ [][Next]_vars

(***************************************************************************)
(* SpecBoard: the session with GameBoard's win modal.  The rows stay       *)
(* mounted and keep their key handlers under the modal, so the player's    *)
(* moves of Spec remain; the modal adds its Close and Play Again buttons,  *)
(* offered while it is open.                                               *)
(***************************************************************************)
\* The if in GameBoard's body, run in every render: with the status 'won',
\* no modal shown and none closed by hand, setShowWinModal(true).
Rendered(b, status) ==
    IF status = "won" /\ ~b.showWinModal /\ ~b.modalClosedManually
    THEN [b EXCEPT !.showWinModal = TRUE]
    ELSE b

\* handleCloseModal: setShowWinModal(false); setModalClosedManually(true)
handleCloseModal(b) ==
    [b EXCEPT !.showWinModal = FALSE, !.modalClosedManually = TRUE]

\* What handlePlayAgain does to the modal state:
\* setShowWinModal(false); setModalClosedManually(false)
handlePlayAgain(b) ==
    [b EXCEPT !.showWinModal = FALSE, !.modalClosedManually = FALSE]

\* A cell edit re-renders GameBoard with the status it had: the modal state
\* is already what the render's if leaves it.
BoardCellChange(r) ==
    /\ HandleCellChange(r)
    /\ board = Rendered(board, gameState.status)

\* handleSubmit of row r through a callback holding closureStatus, and the
\* render that follows the hook's new state.
BoardSubmit(r, closureStatus) ==
    /\ handleSubmit(r, closureStatus)
    /\ board' = Rendered(board, gameState'.status)
    /\ UNCHANGED fbVars
    /\ UNCHANGED <<hookCall, trGuesses, trStatus, valCall, deb>>
    /\ DraftBound'

\* The Submit button of the active row
BoardClickSubmit(r) ==
    /\ isActive(r)
    /\ isComplete(values[r])
    /\ BoardSubmit(r, gameState.status)

\* Enter in any cell of row r
BoardPressEnter(r) == BoardSubmit(r, keyStatus[r])

\* The modal's Close button (onClose), there while the modal is open
CloseModal ==
    /\ board.showWinModal
    /\ board' = Rendered(handleCloseModal(board), gameState.status)
    /\ UNCHANGED sessionVars
    /\ UNCHANGED fbVars
    /\ UNCHANGED <<hookCall, trGuesses, trStatus, valCall, deb>>

\* handlePlayAgain, from the board's Play Again button (rendered once the
\* status is no longer 'playing') or from the modal's (onPlayAgain).
BoardPlayAgain ==
    /\ gameState.status # "playing" \/ board.showWinModal
    /\ gameState' = resetGame
    /\ values' = [r \in Rows |-> EmptyRow]
    /\ errorMessage' = [r \in Rows |-> ""]
    /\ keyStatus' = [r \in Rows |-> "playing"]
    /\ board' = Rendered(handlePlayAgain(board), gameState'.status)
    /\ UNCHANGED fbVars
    /\ UNCHANGED <<hookCall, trGuesses, trStatus, valCall, deb>>

NextBoard ==
    \/ \E r \in Rows : BoardCellChange(r)
    \/ \E r \in Rows : BoardClickSubmit(r)
    \/ \E r \in Rows : BoardPressEnter(r)
    \/ CloseModal
    \/ BoardPlayAgain

SpecBoard == Init /\ [][NextBoard]_vars

(***************************************************************************)
(* SpecHook: useGameState alone, its two callbacks called by any client.   *)
(* A client calls the submitGuess of the last render or one it kept from a *)
(* render in which the status was 'playing', with any guess handleSubmit   *)
(* lets through, and resetGame at any time.                                *)
(***************************************************************************)
\* A third consistent guess: 1 2 3 0 | 3 1 | 5 9, with digits of the puzzle
\* in other places than the puzzle has them.
NearRow == RowOf(AsArray(MkTriple(1, 2, 3, 0, 3, 1, 5, 9)))
HookGuessInputs == {GuessInput(WinRow), GuessInput(MissRow), GuessInput(NearRow)}

\* submitGuess(guessInput) through a callback whose closure holds closureStatus
HookSubmitGuess ==
    /\ \E closureStatus \in {gameState.status, "playing"} :
       \E guessInput \in HookGuessInputs :
          /\ closureStatus = "playing" => Len(gameState.guesses) < MaxHistory
          /\ gameState' = submitGuess(gameState, closureStatus,
                                      gameState.puzzle, guessInput)
          /\ hookCall' = [fn |-> "submitGuess",
                          closureStatus |-> closureStatus,
                          prev |-> gameState]
    /\ UNCHANGED rowVars
    /\ UNCHANGED fbVars
    /\ UNCHANGED <<trGuesses, trStatus, valCall, deb, board>>

\* resetGame()
HookResetGame ==
    /\ gameState' = resetGame
    /\ hookCall' = [fn |-> "resetGame", closureStatus |-> "none", prev |-> gameState]
    /\ UNCHANGED rowVars
    /\ UNCHANGED fbVars
    /\ UNCHANGED <<trGuesses, trStatus, valCall, deb, board>>

NextHook ==
    \/ HookSubmitGuess
    \/ HookResetGame

SpecHook == Init /\ [][NextHook]_vars

(***************************************************************************)
(* SpecTracker: calculateDigitTracker on every list of guesses of the      *)
(* domain below, one guess longer at each step.  The function reads a      *)
(* guess's eight values and eight labels and nothing else, so the guesses  *)
(* carry any labels, as in feedback.test.ts.                               *)
(***************************************************************************)
\* A digit calculateDigitTracker initialises no key for, and two it does.
TrackerDigits == {0, 5, 9}

\* A guess whose matrix cells hold x with label l1 and whose vector and
\* result cells hold y with label l2.
TrackerGuess(x, l1, y, l2) ==
    [matrix |-> [a |-> x, b |-> x, c |-> x, d |-> x],
     vector |-> [e |-> y, f |-> y],
     result |-> [g |-> y, h |-> y],
     feedback |-> [i \in Positions |-> IF i < 4 THEN l1 ELSE l2]]

TrackerGuessDomain ==
    {TrackerGuess(x, l1, y, l2) :
        x \in TrackerDigits, l1 \in FeedbackColor,
        y \in TrackerDigits, l2 \in FeedbackColor}

\* calculateDigitTracker(guesses) with one more guess at the end
TrackerCall ==
    /\ Len(trGuesses) < MaxTrackedGuesses
    /\ \E guess \in TrackerGuessDomain :
          /\ trGuesses' = Append(trGuesses, guess)
          /\ trStatus' = calculateDigitTracker(trGuesses')
    /\ UNCHANGED <<hookCall, valCall, deb, board>>
    /\ UNCHANGED sessionVars
    /\ UNCHANGED fbVars

NextTracker == TrackerCall

SpecTracker == Init /\ [][NextTracker]_vars

(***************************************************************************)
(* SpecValidation: lib/validation.ts as pure functions.  Init draws the    *)
(* three arguments; each action is one call on them and records what the   *)
(* call returned.  The arguments are either eight integers (operands 0, 1  *)
(* and 9, declared results up to 18, so that products beyond one digit     *)
(* occur) or one of two well-formed candidates with any of its fields      *)
(* replaced by a missing value or by a present value that is no digit.     *)
(***************************************************************************)
OperandValues == {0, 1, 9}
ResultValues == {0, 1, 9, 10, 18}

ArgsOf(arr) ==
    [matrix |-> [a |-> arr[0], b |-> arr[1], c |-> arr[2], d |-> arr[3]],
     vector |-> [e |-> arr[4], f |-> arr[5]],
     result |-> [g |-> arr[6], h |-> arr[7]]]

IntegerInputs ==
    {ArgsOf([p \in Positions |-> Num(IF p < 6 THEN ops[p] ELSE res[p])]) :
        ops \in [0 .. 5 -> OperandValues], res \in [6 .. 7 -> ResultValues]}

\* 1*3 + 2*1 = 5 and 3*3 + 0*1 = 9: the first candidate's arithmetic holds,
\* the second's does not.
WellFormedBases == {<<1, 2, 3, 0, 3, 1, 5, 9>>, <<1, 2, 3, 0, 3, 1, 5, 8>>}

\* A missing value and a present value that is no digit 0-9.
DefectValues ==
    {[missing |-> Undefined, invalid |-> NaN],
     [missing |-> Null, invalid |-> Frac(1)],
     [missing |-> Undefined, invalid |-> Num(10)],
     [missing |-> Null, invalid |-> Num(0 - 1)]}

DefectPatterns == [Positions -> {"ok", "missing", "invalid"}]

DefectInputs ==
    {ArgsOf([p \in Positions |->
                IF pat[p] = "missing" THEN dv.missing
                ELSE IF pat[p] = "invalid" THEN dv.invalid
                ELSE Num(base[p + 1])]) :
        base \in WellFormedBases, dv \in DefectValues, pat \in DefectPatterns}

ValidationInputs == IntegerInputs \cup DefectInputs

\* The single values handed to isValidDigit and isValidGameInput: integers
\* around 0..9, numbers that are no integers, undefined, null, and every
\* string of up to MaxStringLen characters out of the digits, a letter, a
\* blank and a symbol.
Chars == DigitKeys \cup {"a", " ", "!"}
Strings == UNION {[1 .. n -> Chars] : n \in 0 .. MaxStringLen}
SingleInputs ==
    {Num(n) : n \in (0 - 1) .. 10} \cup {NaN, Frac(1), Undefined, Null}
        \cup {Str(chars) : chars \in Strings}

InitValidation ==
    /\ SessionInit
    /\ FbIdle
    /\ HookIdle
    /\ TrackerIdle
    /\ DebounceIdle
    /\ BoardIdle
    /\ \/ \E args \in ValidationInputs :
             valCall = [NoValidation EXCEPT !.fn = "args", !.args = args]
       \/ \E input \in SingleInputs :
             valCall = [NoValidation EXCEPT !.fn = "input", !.input = input]

\* Matrix2x2, Vector2x1 and Result2x1 arguments holding integers
AllIntegers(args) ==
    /\ \A k \in {"a", "b", "c", "d"} : args.matrix[k].t = "number"
    /\ \A k \in {"e", "f"} : args.vector[k].t = "number"
    /\ \A k \in {"g", "h"} : args.result[k].t = "number"

CallValidateMatrixMultiplication ==
    /\ valCall.fn = "args"
    /\ AllIntegers(valCall.args)
    /\ valCall' = [valCall EXCEPT
          !.fn = "validateMatrixMultiplication",
          !.ok = validateMatrixMultiplication(valCall.args.matrix, valCall.args.vector,
                                              valCall.args.result)]
    /\ UNCHANGED <<hookCall, trGuesses, trStatus, deb, board>>
    /\ UNCHANGED sessionVars
    /\ UNCHANGED fbVars

CallValidateMatrixInputs ==
    /\ valCall.fn = "args"
    /\ valCall' = [valCall EXCEPT
          !.fn = "validateMatrixInputs",
          !.out = validateMatrixInputs(valCall.args.matrix, valCall.args.vector,
                                       valCall.args.result)]
    /\ UNCHANGED <<hookCall, trGuesses, trStatus, deb, board>>
    /\ UNCHANGED sessionVars
    /\ UNCHANGED fbVars

CallValidateCompleteGuess ==
    /\ valCall.fn = "args"
    /\ valCall' = [valCall EXCEPT
          !.fn = "validateCompleteGuess",
          !.out = validateCompleteGuess(valCall.args.matrix, valCall.args.vector,
                                        valCall.args.result),
          !.reachedMath = ReachesArithmetic(valCall.args.matrix, valCall.args.vector,
                                            valCall.args.result)]
    /\ UNCHANGED <<hookCall, trGuesses, trStatus, deb, board>>
    /\ UNCHANGED sessionVars
    /\ UNCHANGED fbVars

CallIsValidDigit ==
    /\ valCall.fn = "input"
    /\ valCall' = [valCall EXCEPT !.fn = "isValidDigit", !.ok = isValidDigit(valCall.input)]
    /\ UNCHANGED <<hookCall, trGuesses, trStatus, deb, board>>
    /\ UNCHANGED sessionVars
    /\ UNCHANGED fbVars

\* isValidGameInput(input: string)
CallIsValidGameInput ==
    /\ valCall.fn = "input"
    /\ valCall.input.t = "string"
    /\ valCall' = [valCall EXCEPT
          !.fn = "isValidGameInput", !.ok = isValidGameInput(valCall.input.s)]
    /\ UNCHANGED <<hookCall, trGuesses, trStatus, deb, board>>
    /\ UNCHANGED sessionVars
    /\ UNCHANGED fbVars

NextValidation ==
    \/ CallIsValidDigit
    \/ CallIsValidGameInput
    \/ CallValidateMatrixMultiplication
    \/ CallValidateMatrixInputs
    \/ CallValidateCompleteGuess

SpecValidation == InitValidation /\ [][NextValidation]_vars

(***************************************************************************)
(* SpecDebounce: debounce(func, delay) of lib/input-utils.ts.  Init is the *)
(* call of debounce; the actions are a call of the returned function, a    *)
(* due timer running its callback, and the clock advancing.  A timer runs  *)
(* at its time or later, never earlier; a call made once a timer is due    *)
(* but before it has run still cancels it.                                 *)
(***************************************************************************)
Delays == {1, 2}
DebounceArgs == {1, 2}

\* clearTimeout that cancels nothing
clearTimeoutNoOp(timers, id) == timers

\* clearTimeout(timeoutId): the timer is no longer pending (no effect when
\* the id is undefined or its timer has run)
clearTimeout(timers, id) == timers \ {id}

\* setTimeout(() => func(...args), delay) at time now
setTimeout(args, delay, now) == [at |-> now + delay, args |-> args]

InitDebounce ==
    /\ SessionInit
    /\ FbIdle
    /\ HookIdle
    /\ TrackerIdle
    /\ ValidationIdle
    /\ BoardIdle
    /\ \E delay \in Delays : deb = [NoDebounce EXCEPT !.delay = delay]

\* The returned function called with args
DebouncedCall ==
    /\ deb.now + deb.delay <= MaxTime
    /\ \E args \in DebounceArgs :
          LET timer == setTimeout(args, deb.delay, deb.now)
          IN  deb' = [deb EXCEPT
                !.timers = clearTimeout(deb.timers, deb.timeoutId) \cup {timer},
                !.timeoutId = timer,
                !.called = TRUE,
                !.cancelled = deb.timeoutId \in deb.timers,
                !.lastCallAt = deb.now,
                !.lastArgs = args,
                !.execsSinceCall = 0]
    /\ UNCHANGED <<hookCall, trGuesses, trStatus, valCall, board>>
    /\ UNCHANGED sessionVars
    /\ UNCHANGED fbVars

\* A pending timer whose time has come runs () => func(...args)
TimerFires ==
    /\ \E timer \in deb.timers :
          /\ timer.at <= deb.now
          /\ deb' = [deb EXCEPT
                !.timers = deb.timers \ {timer},
                !.execsSinceCall = deb.execsSinceCall + 1,
                !.lastExecAt = deb.now,
                !.lastExecArgs = timer.args]
    /\ UNCHANGED <<hookCall, trGuesses, trStatus, valCall, board>>
    /\ UNCHANGED sessionVars
    /\ UNCHANGED fbVars

\* Time passes
Tick ==
    /\ deb.now < MaxTime
    /\ deb' = [deb EXCEPT !.now = deb.now + 1]
    /\ UNCHANGED <<hookCall, trGuesses, trStatus, valCall, board>>
    /\ UNCHANGED sessionVars
    /\ UNCHANGED fbVars

NextDebounce == DebouncedCall \/ TimerFires \/ Tick

\* The event loop runs every due timer in the end, and time goes on.
SpecDebounce ==
    InitDebounce /\ [][NextDebounce]_vars /\ WF_vars(TimerFires) /\ WF_vars(Tick)

(***************************************************************************)
(* Properties of the classifier and the win detector (SpecFeedback).       *)
(***************************************************************************)
G == AsArray(fbGuess)
T == AsArray(fbTarget)
Exact == {i \in Positions : G[i] = T[i]}
NonAbsent == {i \in Positions : feedback[i] \in {"correct", "wrong-position"}}
FbDone == fbPc \in {"returned", "checked"}
DigitValues == 0 .. 9

\* C1 (exact-match priority): once the first pass is over, and through every
\* iteration of the second pass up to the returned array, every position at
\* which the guess equals the secret is labelled 'correct', whatever
\* duplicates of that digit occur elsewhere.
C1_ExactMatchPriority ==
    fbPc \in {"pass2", "returned", "checked"} =>
        \A i \in Exact : feedback[i] = "correct"

\* C1 witness: a returned feedback with an exact match at i while the same
\* digit, guessed again at j, got 'not-in-puzzle' from the duplicate handling.
C1_Witness ==
    /\ fbPc = "returned"
    /\ \E i \in Exact : \E j \in Positions \ Exact :
          /\ G[j] = G[i]
          /\ feedback[i] = "correct"
          /\ feedback[j] = "not-in-puzzle"

\* C2 (multiset conservation): in the returned array, for every digit value d
\* the number of guess positions holding d labelled 'correct' or
\* 'wrong-position' is at most the number of occurrences of d in the secret.
C2_MultisetConservation ==
    FbDone =>
        \A d \in DigitValues :
            Cardinality({i \in NonAbsent : G[i] = d})
                <= Cardinality({idx \in Positions : T[idx] = d})

\* C2 witness: three 1s guessed against a secret with exactly two 1s: two of
\* them are labelled 'correct'/'wrong-position', the third 'not-in-puzzle'.
C2_Witness ==
    /\ fbPc = "returned"
    /\ Cardinality({i \in Positions : G[i] = 1}) = 3
    /\ Cardinality({idx \in Positions : T[idx] = 1}) = 2
    /\ Cardinality({i \in NonAbsent : G[i] = 1}) = 2
    /\ Cardinality({i \in Positions : G[i] = 1 /\ feedback[i] = "not-in-puzzle"}) = 1

\* Declarative description of the two passes, independent of the loops, for
\* guess array g, secret array t and ex, the positions where they agree:
\* the secret positions left after the exact matches that hold value v
Avail(t, ex, v) == {idx \in Positions \ ex : t[idx] = v}
\* how many non-exact guess positions below i hold the same value as i
RankInGuess(g, ex, i) == Cardinality({j \in Positions \ ex : j < i /\ g[j] = g[i]})
\* how many unconsumed-after-pass-1 secret positions below idx hold its value
RankInTarget(t, ex, idx) == Cardinality({m \in Positions \ ex : m < idx /\ t[m] = t[idx]})
ExpectedLabel(g, t, ex, i) ==
    IF i \in ex THEN "correct"
    ELSE IF RankInGuess(g, ex, i) < Cardinality(Avail(t, ex, g[i])) THEN "wrong-position"
    ELSE "not-in-puzzle"
\* the secret positions consumed once the second pass has handled positions < k
ExpectedUsed(g, t, ex, k) ==
    ex \cup
    {idx \in Positions \ ex :
        RankInTarget(t, ex, idx)
            < Cardinality({j \in Positions \ ex : j < k /\ g[j] = t[idx]})}

\* C3 (two-pass ordering): while the first pass runs, only exact matches are
\* labelled and consumed and no 'wrong-position' or 'not-in-puzzle' label
\* exists; when the second pass starts every exact match is already labelled
\* and its secret position consumed; the second pass then labels the non-exact
\* positions in ascending order, 'wrong-position' iff an unconsumed secret
\* position holds the value, consuming the lowest such index, so an exactly
\* matched secret position never justifies a 'wrong-position' label.
C3_TwoPassOrdering ==
    LET g == AsArray(fbGuess)
        t == AsArray(fbTarget)
        ex == {i \in Positions : g[i] = t[i]}
    IN  /\ fbPc = "pass1" =>
              \A i \in Positions :
                  IF i < fbI /\ i \in ex
                  THEN feedback[i] = "correct" /\ targetUsed[i]
                  ELSE feedback[i] = "undefined" /\ ~targetUsed[i]
        /\ fbPc \in {"pass2", "returned", "checked"} =>
              /\ \A i \in Positions :
                    feedback[i] = IF i \in ex \/ i < fbI
                                  THEN ExpectedLabel(g, t, ex, i) ELSE "undefined"
              /\ LET eu == ExpectedUsed(g, t, ex, fbI)
                 IN  \A idx \in Positions : targetUsed[idx] <=> idx \in eu

\* C3 witness: the returned array labels guess position i 'not-in-puzzle'
\* although the secret holds its value at a higher position j, because j (like
\* every other secret position holding that value) was matched exactly.
C3_Witness ==
    /\ fbPc = "returned"
    /\ \E j \in Exact : \E i \in Positions \ Exact :
          /\ i < j
          /\ G[i] = T[j]
          /\ {idx \in Positions : T[idx] = T[j]} \subseteq Exact
          /\ feedback[i] = "not-in-puzzle"
          /\ feedback[j] = "correct"

\* C4 (win iff all-exact): isWinningGuess(g, p) is true exactly when
\* generateFeedback(g, p) is eight 'correct' labels.
C4_WinIffAllExact ==
    fbPc = "checked" =>
        (fbWin <=> \A i \in Positions : feedback[i] = "correct")

\* C4 witness: a guess that differs from the secret at exactly one position:
\* seven 'correct' labels, and isWinningGuess is false.
C4_Witness ==
    /\ fbPc = "checked"
    /\ Cardinality(Exact) = NumPositions - 1
    /\ Cardinality({i \in Positions : feedback[i] = "correct"}) = NumPositions - 1
    /\ fbWin = FALSE

\* a winning guess is reached as well
C4_WinReached ==
    fbPc = "checked" /\ fbWin /\ \A i \in Positions : feedback[i] = "correct"

(***************************************************************************)
(* Properties of the session (Spec).                                       *)
(***************************************************************************)
History == gameState.guesses
Last(h) == h[Len(h)]
\* the guess holds the puzzle's value at each of the eight positions
EqualsPuzzle(guess) == AsArray(guess) = AsArray(gameState.puzzle)
\* a step of the hook that appended one guess to the history
Appended == Len(gameState'.guesses) = Len(gameState.guesses) + 1
MathErrorText == "The math doesn't work out! Try again."

\* C5 (validator gating): every guess in the history has eight integer digits
\* in 0..9 and a result that is its matrix times its vector.
C5_ValidatorGating ==
    \A k \in 1 .. Len(History) :
        LET guess == History[k]
        IN  /\ \A i \in Positions : AsArray(guess)[i] \in 0 .. 9
            /\ guess.result.g = guess.matrix.a * guess.vector.e
                                  + guess.matrix.b * guess.vector.f
            /\ guess.result.h = guess.matrix.c * guess.vector.e
                                  + guess.matrix.d * guess.vector.f

\* C5 witness: a complete row with wrong arithmetic was submitted and turned
\* down (it shows the arithmetic message) while the history holds accepted
\* guesses, none of which is that row.
C5_Witness ==
    /\ Len(History) >= 1
    /\ \E r \in Rows :
          /\ values[r] = BadMathRow
          /\ errorMessage[r] = MathErrorText
          /\ \A k \in 1 .. Len(History) : RowOf(AsArray(History[k])) # BadMathRow

\* C6 (at most six guesses): the history never holds more than six guesses.
C6_HistoryAtMostSix == Len(History) <= MaxGuesses

\* C7 (terminal states absorb): once the status is 'won' or 'lost', a step that
\* is not a reset (the history stays non-empty) leaves the status as it is.
C7_TerminalAbsorbing ==
    [][(gameState.status # "playing" /\ gameState'.guesses # <<>>)
          => gameState'.status = gameState.status]_vars

\* handleSubmit of some row reached onSubmit: submitGuess was invoked
SubmitGuessInvoked ==
    \E r \in Rows :
        /\ PassesHandleSubmit(values[r])
        /\ PressEnter(r) \/ ClickSubmit(r)

\* C8 (no-op when not playing): a submitGuess invoked while the status is
\* 'won' or 'lost' leaves puzzle, guesses, currentGuess, status and
\* digitTracker unchanged.
C8_TerminalSubmitNoOp ==
    [][(gameState.status # "playing" /\ SubmitGuessInvoked)
          => gameState' = gameState]_vars

\* C9 (a win at any attempt): a guess appended while the status is 'playing'
\* that equals the puzzle on all eight positions sets the status to 'won',
\* also when it is the sixth guess.
C9_WinRegardlessOfAttempts ==
    [][(gameState.status = "playing" /\ Appended
            /\ AsArray(Last(gameState'.guesses)) = AsArray(gameState.puzzle))
          => gameState'.status = "won"]_vars

\* C9 witness: five guesses that are not the puzzle, then the puzzle as the
\* sixth guess, and the status is 'won'.
C9_Witness ==
    /\ Len(History) = MaxGuesses
    /\ \A k \in 1 .. (MaxGuesses - 1) : ~EqualsPuzzle(History[k])
    /\ EqualsPuzzle(History[MaxGuesses])
    /\ gameState.status = "won"

\* C10 (a miss): a guess appended while the status is 'playing' that is not
\* the puzzle ends the game as 'lost' if the history thereby holds six
\* guesses, and otherwise leaves it 'playing' with currentGuess one higher;
\* so a history of six guesses, none the puzzle, has status 'lost'.
C10_MissAdvancesOrLoses ==
    /\ [][(gameState.status = "playing" /\ Appended
              /\ AsArray(Last(gameState'.guesses)) # AsArray(gameState.puzzle))
            => IF Len(gameState'.guesses) = MaxGuesses
               THEN gameState'.status = "lost"
               ELSE /\ gameState'.status = "playing"
                    /\ gameState'.currentGuess = gameState.currentGuess + 1]_vars
    /\ [](( /\ Len(History) = MaxGuesses
            /\ \A k \in 1 .. Len(History) : ~EqualsPuzzle(History[k]) )
          => gameState.status = "lost")

\* C10 witness: six guesses, none the puzzle, status 'lost', and the attempt
\* index where the five earlier misses left it.
C10_Witness ==
    /\ Len(History) = MaxGuesses
    /\ \A k \in 1 .. Len(History) : ~EqualsPuzzle(History[k])
    /\ gameState.status = "lost"
    /\ gameState.currentGuess = MaxGuesses - 1

(***************************************************************************)
(* Properties of the hook (SpecHook).                                      *)
(***************************************************************************)
\* C11 (reset): whatever state resetGame replaced (playing, won or lost, any
\* history, any tracker), the state after it has an empty history, attempt
\* index 0, a digit tracker with no entry, the puzzle assigned and status
\* 'playing'.
C11_ResetYieldsFreshSession ==
    hookCall.fn = "resetGame" =>
        /\ gameState.guesses = <<>>
        /\ gameState.currentGuess = 0
        /\ \A k \in DigitKeys : gameState.digitTracker[k] = "undefined"
        /\ gameState.puzzle = TEST_PUZZLE
        /\ gameState.status = "playing"

\* C11 witness: resetGame has just replaced a finished session that held
\* guesses and a tracker with entries.
C11_Witness ==
    /\ hookCall.fn = "resetGame"
    /\ hookCall.prev.status \in {"won", "lost"}
    /\ Len(hookCall.prev.guesses) >= 2
    /\ \E k \in DigitKeys : hookCall.prev.digitTracker[k] = "correct"
    /\ gameState.guesses = <<>>

\* C14 (the stored tracker is the aggregator of the history): in every state
\* of the hook every digit's stored status, read as the board reads it, is
\* the status calculateDigitTracker gives it for the whole current history;
\* with an empty history (first render, after resetGame) every digit is
\* 'not-in-puzzle', and once a guess has been accepted the stored map is the
\* very map calculateDigitTracker returns for the history.
C14_TrackerIsAggregatorOfHistory ==
    /\ \A d \in DigitValues :
          StatusOf(gameState.digitTracker, d)
              = StatusOf(calculateDigitTracker(gameState.guesses), d)
    /\ gameState.guesses = <<>> =>
          \A d \in DigitValues : StatusOf(gameState.digitTracker, d) = "not-in-puzzle"
    /\ gameState.guesses # <<>> =>
          gameState.digitTracker = calculateDigitTracker(gameState.guesses)

\* C14 witness: a submission was accepted on top of earlier guesses and the
\* stored map, recomputed, differs from the map it replaced.
C14_Witness ==
    /\ hookCall.fn = "submitGuess"
    /\ Len(gameState.guesses) >= 2
    /\ Len(gameState.guesses) = Len(hookCall.prev.guesses) + 1
    /\ gameState.digitTracker # hookCall.prev.digitTracker
    /\ gameState.digitTracker = calculateDigitTracker(gameState.guesses)

(***************************************************************************)
(* Properties of calculateDigitTracker (SpecTracker).                      *)
(***************************************************************************)
\* correct > wrong-position > not-in-puzzle
Rank(label) ==
    CASE label = "correct" -> 2
      [] label = "wrong-position" -> 1
      [] OTHER -> 0

\* the labels the guesses carry for digit d
Observed(guesses, d) ==
    {l \in FeedbackColor :
        \E k \in 1 .. Len(guesses) : \E i \in Positions :
            AsArray(guesses[k])[i] = d /\ guesses[k].feedback[i] = l}

\* the best of a set of labels, 'not-in-puzzle' for none
BestLabel(labels) ==
    IF "correct" \in labels THEN "correct"
    ELSE IF "wrong-position" \in labels THEN "wrong-position"
    ELSE "not-in-puzzle"

\* C12 (best-known label): for every digit 0..9 the validator admits, the
\* status calculateDigitTracker returns is the best label the guesses carry
\* for that digit, in whatever order they carry them, and 'not-in-puzzle' if
\* they carry none.
C12_TrackerIsBestKnownLabel ==
    \A d \in DigitValues :
        StatusOf(trStatus, d) = BestLabel(Observed(trGuesses, d))

\* C13 (tracker monotonicity): with one more guess at the end of the list,
\* no digit's status gets worse: 'correct' stays 'correct', and
\* 'wrong-position' never goes back to 'not-in-puzzle'.
C13_TrackerMonotone ==
    [][\A d \in DigitValues :
          Rank(StatusOf(trStatus', d)) >= Rank(StatusOf(trStatus, d))]_vars

\* C13 witness: a digit 'correct' in the first guess is carried by the second
\* guess with lesser labels only, and its status is still 'correct'.
C13_Witness ==
    /\ Len(trGuesses) = 2
    /\ \E d \in DigitValues :
          /\ "correct" \in Observed(<<trGuesses[1]>>, d)
          /\ Observed(<<trGuesses[2]>>, d) # {}
          /\ "correct" \notin Observed(<<trGuesses[2]>>, d)
          /\ StatusOf(trStatus, d) = "correct"

(***************************************************************************)
(* Properties of lib/validation.ts (SpecValidation).                       *)
(***************************************************************************)
\* The eight argument fields in the order a, b, c, d, e, f, g, h
FieldsOf(args) ==
    <<args.matrix.a, args.matrix.b, args.matrix.c, args.matrix.d,
      args.vector.e, args.vector.f, args.result.g, args.result.h>>

Present(x) == x.t \notin {"undefined", "null"}
IntegerDigit(x) == x.t = "number" /\ x.v \in 0 .. 9
WellFormed(args) == \A i \in 1 .. 8 : Present(FieldsOf(args)[i]) /\ IntegerDigit(FieldsOf(args)[i])

\* g = a*e + b*f and h = c*e + d*f, of integer fields
ArithmeticHolds(args) ==
    LET x == FieldsOf(args)
    IN  /\ x[7].v = x[1].v * x[5].v + x[2].v * x[6].v
        /\ x[8].v = x[3].v * x[5].v + x[4].v * x[6].v

\* a = 1, b = 9, c = 9, d = 1, e = f = 1, g = h = 10
TwoDigitProduct == ArgsOf([p \in Positions |-> Num(<<1, 9, 9, 1, 1, 1, 10, 10>>[p + 1])])
AllZero == ArgsOf([p \in Positions |-> Num(0)])

\* C15: validateCompleteGuess accepts exactly the candidates whose eight
\* fields are all present integer digits 0..9 and whose declared result is
\* matrix x vector, and it gets to the arithmetic only when all eight fields
\* passed the presence and range rules.
C15_AcceptsIffWellFormedAndConsistent ==
    valCall.fn = "validateCompleteGuess" =>
        /\ valCall.out.isValid <=> (WellFormed(valCall.args) /\ ArithmeticHolds(valCall.args))
        /\ valCall.reachedMath => WellFormed(valCall.args)

\* A candidate whose arithmetic holds and whose result is beyond one digit
\* was rejected without reaching the arithmetic.
C15_Witness ==
    /\ valCall.fn = "validateCompleteGuess"
    /\ valCall.args = TwoDigitProduct
    /\ ArithmeticHolds(valCall.args)
    /\ ~valCall.out.isValid
    /\ ~valCall.reachedMath

FieldNames == <<"a", "b", "c", "d", "e", "f", "g", "h">>
FieldKind(i) == IF i <= 4 THEN "Matrix" ELSE IF i <= 6 THEN "Vector" ELSE "Result"
RequiredDefect(i) == FieldKind(i) \o " position " \o FieldNames[i] \o " is required"
DigitDefect(i) == FieldKind(i) \o " position " \o FieldNames[i] \o " must be a digit 0-9"
PerFieldDefects == {RequiredDefect(i) : i \in 1 .. 8} \cup {DigitDefect(i) : i \in 1 .. 8}
ArithmeticDefect == "The math doesn't work out! Try again."

Offending(args) == {i \in 1 .. 8 : ~(Present(FieldsOf(args)[i]) /\ IntegerDigit(FieldsOf(args)[i]))}

\* One defect per offending field, in the order a..h
ExpectedFieldDefects(args) ==
    LET off == Offending(args)
        nth(j) == CHOOSE i \in off : Cardinality({m \in off : m < i}) = j - 1
    IN  [j \in 1 .. Cardinality(off) |->
            IF Present(FieldsOf(args)[nth(j)]) THEN DigitDefect(nth(j)) ELSE RequiredDefect(nth(j))]

\* C16: a rejection carries a non-empty defect list: with a missing or
\* out-of-range field, exactly one defect per offending field in the order
\* a..h ('is required' for a missing field, 'must be a digit' for a present
\* invalid one) and no arithmetic defect; with eight well-formed fields and
\* wrong arithmetic, exactly the one arithmetic defect, which is none of the
\* per-field defects.
C16_DefectList ==
    valCall.fn \in {"validateMatrixInputs", "validateCompleteGuess"} =>
        /\ ~valCall.out.isValid => valCall.out.errors # <<>>
        /\ ~WellFormed(valCall.args) =>
              /\ ~valCall.out.isValid
              /\ valCall.out.errors = ExpectedFieldDefects(valCall.args)
              /\ \A j \in 1 .. Len(valCall.out.errors) : valCall.out.errors[j] # ArithmeticDefect
        /\ (/\ valCall.fn = "validateCompleteGuess"
            /\ WellFormed(valCall.args)
            /\ ~ArithmeticHolds(valCall.args)) =>
              /\ ~valCall.out.isValid
              /\ valCall.out.errors = <<ArithmeticDefect>>
              /\ ArithmeticDefect \notin PerFieldDefects

\* validateCompleteGuess rejected a candidate with a present invalid field
\* ahead of a missing one, and listed the two defects in field order.
C16_Witness ==
    /\ valCall.fn = "validateCompleteGuess"
    /\ ~valCall.out.isValid
    /\ Len(valCall.out.errors) = 2
    /\ \E i, k \in Offending(valCall.args) :
          /\ i < k
          /\ Present(FieldsOf(valCall.args)[i])
          /\ ~Present(FieldsOf(valCall.args)[k])
          /\ valCall.out.errors = <<DigitDefect(i), RequiredDefect(k)>>

\* C20: validateMatrixMultiplication returns true exactly when
\* g = a*e + b*f and h = c*e + d*f, whatever the size of the values: it
\* accepts g = h = 10 for a = 1, b = 9, c = 9, d = 1, e = f = 1, and the
\* all-zero inputs.
C20_ArithmeticWithoutRange ==
    valCall.fn = "validateMatrixMultiplication" =>
        /\ valCall.ok <=> ArithmeticHolds(valCall.args)
        /\ valCall.args \in {TwoDigitProduct, AllZero} => valCall.ok

\* The call on a = 1, b = 9, c = 9, d = 1, e = f = 1, g = h = 10 returned true.
C20_Witness ==
    /\ valCall.fn = "validateMatrixMultiplication"
    /\ valCall.args = TwoDigitProduct
    /\ valCall.args.result.g.v > 9
    /\ valCall.ok

(***************************************************************************)
(* Further properties of the session (Spec).                               *)
(***************************************************************************)
\* The eight cells as handleSubmit parses them
ParsedArgs(vals) == ArgsOf([p \in Positions |-> parseInt(vals[p])])

\* The row's cells are incomplete, hold a field defect, or their arithmetic fails.
Rejected(vals) ==
    \/ ~isComplete(vals)
    \/ LET args == ParsedArgs(vals)
       IN  ~WellFormed(args) \/ ~ArithmeticHolds(args)

\* What a rejecting handleSubmit shows for the cells vals
RejectionMessage(vals) ==
    IF ~isComplete(vals) THEN "Please fill in all boxes"
    ELSE LET args == ParsedArgs(vals)
         IN  IF ~WellFormed(args) THEN ExpectedFieldDefects(args)[1] ELSE ArithmeticDefect

\* C17: a submission (Submit button or Enter) of a row that is incomplete,
\* has a field defect or fails the arithmetic changes nothing of the session:
\* guesses, currentGuess, status and digitTracker are as before, the row's
\* cells are kept, only that row's error message is set (to a non-empty
\* text), and the row is as open to correction and resubmission as it was:
\* an active row stays active, an editable row stays editable.
C17_RejectionBlocksSubmission ==
    [][\A r \in Rows :
          (Rejected(values[r]) /\ (ClickSubmit(r) \/ PressEnter(r))) =>
              /\ gameState'.guesses = gameState.guesses
              /\ gameState'.currentGuess = gameState.currentGuess
              /\ gameState'.status = gameState.status
              /\ gameState'.digitTracker = gameState.digitTracker
              /\ values' = values
              /\ errorMessage' = [errorMessage EXCEPT ![r] = RejectionMessage(values[r])]
              /\ errorMessage'[r] # ""
              /\ isActive(r) => isActive(r)'
              /\ ~isSubmitted(r) => ~isSubmitted(r)']_vars

\* After an accepted guess, the active row holds a guess whose arithmetic
\* fails and shows the arithmetic defect; the history is one guess long.
C17_Witness ==
    /\ Len(gameState.guesses) = 1
    /\ gameState.status = "playing"
    /\ values[gameState.currentGuess] = BadMathRow
    /\ errorMessage[gameState.currentGuess] = ArithmeticDefect
    /\ Rejected(values[gameState.currentGuess])
    /\ isActive(gameState.currentGuess)
    /\ ~isSubmitted(gameState.currentGuess)

(***************************************************************************)
(* Further properties of the hook (SpecHook).                              *)
(***************************************************************************)
\* The entry carries exactly eight labels, each a FeedbackColor, and they are
\* generateFeedback of the entry against the puzzle.
Labelled(entry, puzzle) ==
    /\ DOMAIN entry.feedback = Positions
    /\ Cardinality(DOMAIN entry.feedback) = 8
    /\ \A p \in Positions : entry.feedback[p] \in FeedbackColor
    /\ entry.feedback = generateFeedback(entry, puzzle)

\* The history after the step is the history before it, or that with one
\* entry more at its end.
GrowsAtEnd ==
    \/ gameState'.guesses = gameState.guesses
    \/ /\ Len(gameState'.guesses) = Len(gameState.guesses) + 1
       /\ SubSeq(gameState'.guesses, 1, Len(gameState.guesses)) = gameState.guesses

\* C18: every history entry has exactly 8 labels out of correct /
\* wrong-position / not-in-puzzle, equal to generateFeedback(entry, puzzle),
\* and a step that is no reset leaves the earlier entries as they were, in
\* place, adding at most one entry at the end.
C18_FeedbackFixedAtAppend ==
    /\ [](\A k \in 1 .. Len(gameState.guesses) :
              Labelled(gameState.guesses[k], gameState.puzzle))
    /\ [][hookCall'.fn # "resetGame" => GrowsAtEnd]_vars

\* A third guess has been appended behind two entries that are still what
\* they were, and the entries do not all carry the same labels.
C18_Witness ==
    /\ hookCall.fn = "submitGuess"
    /\ Len(gameState.guesses) = 3
    /\ SubSeq(gameState.guesses, 1, 2) = hookCall.prev.guesses
    /\ gameState.guesses[1].feedback # gameState.guesses[3].feedback
    /\ Labelled(gameState.guesses[3], gameState.puzzle)

\* C19: a call of submitGuess, whether it appends (and then wins, loses or
\* goes on) or is ignored, leaves the session's puzzle as it was; the feedback
\* of the appended guess and the win test that sets the status are both
\* taken against that puzzle.
C19_PuzzleNeverMutated ==
    [][hookCall'.fn = "submitGuess" =>
          /\ gameState'.puzzle = gameState.puzzle
          /\ Appended =>
                /\ Last(gameState'.guesses).feedback =
                       generateFeedback(Last(gameState'.guesses), gameState.puzzle)
                /\ gameState'.status = "won" <=>
                       isWinningGuess(Last(gameState'.guesses), gameState.puzzle)]_vars

\* A winning guess has been appended behind a miss: all its labels are
\* 'correct' against the puzzle the session still holds.
C19_Witness ==
    /\ hookCall.fn = "submitGuess"
    /\ Len(gameState.guesses) = Len(hookCall.prev.guesses) + 1
    /\ Len(gameState.guesses) >= 2
    /\ gameState.status = "won"
    /\ gameState.puzzle = hookCall.prev.puzzle
    /\ \A p \in Positions : Last(gameState.guesses).feedback[p] = "correct"

(***************************************************************************)
(* Properties of isValidDigit and isValidGameInput (SpecValidation).       *)
(***************************************************************************)
\* The one-character string of a digit 0..9
DigitString(n) == Str(<<toString(n)>>)
\* The text is a digit with white space around it and nothing else.
PaddedDigit(chars) ==
    \E i \in 1 .. Len(chars) :
        /\ chars[i] \in DigitKeys
        /\ \A k \in (1 .. Len(chars)) \ {i} : chars[k] \in WhiteSpace

\* What the claim says of an input: a number 0..9 or its one-character
\* string is a digit; nothing else is.
SaidToBeDigit(input) ==
    \/ input.t = "number" /\ input.v \in 0 .. 9
    \/ input.t = "string" /\ Len(input.s) = 1 /\ input.s[1] \in DigitKeys

\* C21 as stated: isValidDigit accepts every integer 0..9 as a number and as
\* its one-character string and rejects everything else: numbers outside
\* 0..9, every multi-character string, the empty and the white-space strings,
\* non-digit characters, null and undefined.
C21_DigitOrNothing ==
    valCall.fn = "isValidDigit" => (valCall.ok <=> SaidToBeDigit(valCall.input))

\* C21 amended: isValidDigit accepts the integers 0..9 as numbers, and the
\* strings that are one digit character with any white space around it; it
\* rejects every other number, every other string (two or more characters
\* that are not white space, the empty and the white-space strings,
\* non-digit characters), null and undefined.
C21_DigitUpToPadding ==
    valCall.fn = "isValidDigit" =>
        (valCall.ok <=>
            \/ valCall.input.t = "number" /\ valCall.input.v \in 0 .. 9
            \/ valCall.input.t = "string" /\ PaddedDigit(valCall.input.s))

\* isValidDigit has accepted a digit with a blank in front of it.
C21_Witness ==
    /\ valCall.fn = "isValidDigit"
    /\ valCall.input.t = "string"
    /\ Len(valCall.input.s) = 2
    /\ valCall.input.s[1] \in WhiteSpace
    /\ valCall.ok

\* C22: isValidGameInput returns true for exactly the one-character strings
\* '1' to '9', and false for every other string ('0', '10', letters,
\* symbols, the empty string).
C22_GameInputOneToNine ==
    valCall.fn = "isValidGameInput" =>
        (valCall.ok <=>
            /\ Len(valCall.input.s) = 1
            /\ valCall.input.s[1] \in {toString(n) : n \in 1 .. 9})

(***************************************************************************)
(* Properties of debounce (SpecDebounce).                                  *)
(***************************************************************************)
\* The step runs func
Executes == deb'.execsSinceCall = deb.execsSinceCall + 1
\* The step is a call of the debounced function less than delay after the
\* call before it
CallInBurst ==
    /\ DebouncedCall
    /\ deb.called
    /\ deb.now < deb.lastCallAt + deb.delay

\* C23: func never runs before delay has elapsed since the most recent call
\* of the debounced function, and then with that call's arguments and once;
\* a call less than delay after the previous one finds that one's timer
\* pending and cancels it, leaving one timer; and every call is followed in
\* the end by one run of func for the last call made.
C23_Debounce ==
    /\ [][Executes =>
            /\ deb.called
            /\ deb.now >= deb.lastCallAt + deb.delay
            /\ deb'.lastExecArgs = deb.lastArgs
            /\ deb.execsSinceCall = 0]_vars
    /\ [][CallInBurst =>
            /\ deb.execsSinceCall = 0
            /\ deb'.cancelled
            /\ Cardinality(deb'.timers) = 1]_vars
    /\ (deb.called ~> (deb.execsSinceCall = 1 /\ deb.lastExecArgs = deb.lastArgs))

\* func has run once, for the last call, which had cancelled the timer of
\* the call before it with other arguments.
C23_Witness ==
    /\ deb.called
    /\ deb.cancelled
    /\ deb.execsSinceCall = 1
    /\ deb.lastExecArgs = deb.lastArgs
    /\ deb.lastExecAt >= deb.lastCallAt + deb.delay
    /\ deb.timers = {}

(***************************************************************************)
(* Further properties of the classifier (SpecFeedback).                    *)
(***************************************************************************)
\* How often the digit d occurs among the eight values arr
Occurrences(arr, d) == Cardinality({i \in Positions : arr[i] = d})

\* C24 (exact Wordle count): in the returned array, for every digit value d,
\* the guess positions holding d that are labelled 'correct' or
\* 'wrong-position' number exactly the smaller of the occurrences of d in
\* the guess and in the secret.
C24_ExactWordleCount ==
    FbDone =>
        \A d \in DigitValues :
            Cardinality({i \in NonAbsent : G[i] = d}) =
                IF Occurrences(G, d) <= Occurrences(T, d)
                THEN Occurrences(G, d) ELSE Occurrences(T, d)

\* A digit guessed twice and held twice by the secret: one guess position
\* is exact, the other is matched to the secret's later occurrence, the
\* earlier one being taken by the exact match.
C24_Witness ==
    /\ fbPc = "returned"
    /\ \E d \in DigitValues : \E i, j \in Positions :
          /\ Occurrences(G, d) = 2
          /\ Occurrences(T, d) = 2
          /\ G[i] = d /\ G[j] = d
          /\ feedback[i] = "correct"
          /\ feedback[j] = "wrong-position"
          /\ \E idx \in Positions : idx > i /\ T[idx] = d /\ idx # j

(***************************************************************************)
(* Invariants of the session and the rows' part in it (Spec).              *)
(***************************************************************************)
ActiveRows == {r \in Rows : isActive(r)}
\* No guess of the history before index n equals the puzzle
NoneWins(n) == \A k \in 1 .. n : ~EqualsPuzzle(History[k])

\* C25: 0 <= currentGuess <= 5; while 'playing' currentGuess is the number
\* of guesses, in 'won' or 'lost' it is that number minus one; so while
\* playing exactly one row is active, the first unsubmitted one, in a
\* terminal state none is, and no row is ever both active and submitted.
C25_CurrentGuessTracksHistory ==
    /\ gameState.currentGuess \in 0 .. (MaxGuesses - 1)
    /\ gameState.status = "playing" =>
          /\ gameState.currentGuess = Len(History)
          /\ ActiveRows = {Len(History)}
    /\ gameState.status # "playing" =>
          /\ gameState.currentGuess = Len(History) - 1
          /\ ActiveRows = {}
    /\ \A r \in Rows : ~(isActive(r) /\ isSubmitted(r))

\* C26: the status is determined by the history: 'won' iff the last guess
\* equals the puzzle at all eight positions, 'lost' iff there are exactly 6
\* guesses and none equals the puzzle, 'playing' iff there are fewer than 6
\* and none equals the puzzle; no guess but the last equals the puzzle.
C26_StatusDeterminedByHistory ==
    /\ gameState.status = "won" <=> (History # <<>> /\ EqualsPuzzle(Last(History)))
    /\ gameState.status = "lost" <=>
          (Len(History) = MaxGuesses /\ NoneWins(Len(History)))
    /\ gameState.status = "playing" <=>
          (Len(History) < MaxGuesses /\ NoneWins(Len(History)))
    /\ NoneWins(Len(History) - 1)

\* The step is a submission (Submit button or Enter) from the active row
ActiveRowSubmits == \E r \in Rows : isActive(r) /\ (ClickSubmit(r) \/ PressEnter(r))

\* C27: a guess is appended only by a submission from the active row, so
\* that history entry k holds the values of row k; Enter in a row that is
\* not active appends nothing and leaves the session as it is.
C27_OnlyActiveRowSubmits ==
    /\ [][Appended => ActiveRowSubmits]_vars
    /\ [](\A k \in 1 .. Len(History) :
             (k - 1) \in Rows /\ ShowsGuess(values[k - 1], History[k]))
    /\ [][\A r \in Rows :
            (~isActive(r) /\ PressEnter(r) /\ ~ActiveRowSubmits) =>
                gameState' = gameState]_vars

\* C28: Enter in a row whose key handler reaches a submitGuess created while
\* the status was 'playing', pressed when the status is 'won' or 'lost',
\* appends no guess and leaves status, currentGuess and digitTracker alone.
C28_PlayingGuardAcrossRenders ==
    [][\A r \in Rows :
          (/\ gameState.status # "playing"
           /\ keyStatus[r] = "playing"
           /\ PressEnter(r)) =>
              /\ gameState'.guesses = gameState.guesses
              /\ gameState'.status = gameState.status
              /\ gameState'.currentGuess = gameState.currentGuess
              /\ gameState'.digitTracker = gameState.digitTracker]_vars

(***************************************************************************)
(* The digit tracker against the puzzle (SpecHook).                        *)
(***************************************************************************)
InPuzzle(d) == Occurrences(AsArray(gameState.puzzle), d) > 0
Guessed(d) == \E k \in 1 .. Len(gameState.guesses) :
                  Occurrences(AsArray(gameState.guesses[k]), d) > 0

\* C29: for each digit d in 1..9, the tracker shows 'correct' or
\* 'wrong-position' for d only if d is among the puzzle's eight values, and
\* if d occurs in some guess of the history and in the puzzle, the tracker
\* does not show 'not-in-puzzle' for d.
C29_TrackerSoundAndComplete ==
    \A d \in 1 .. 9 :
        /\ StatusOf(gameState.digitTracker, d) \in {"correct", "wrong-position"} => InPuzzle(d)
        /\ (Guessed(d) /\ InPuzzle(d)) => StatusOf(gameState.digitTracker, d) # "not-in-puzzle"

\* After a submission the tracker shows a guessed digit of the puzzle as
\* 'wrong-position', another as 'correct', and a guessed digit that the
\* puzzle lacks as 'not-in-puzzle'.
C29_Witness ==
    /\ hookCall.fn = "submitGuess"
    /\ gameState.guesses # <<>>
    /\ \E d \in 1 .. 9 :
          Guessed(d) /\ InPuzzle(d) /\ gameState.digitTracker[toString(d)] = "wrong-position"
    /\ \E d \in 1 .. 9 :
          Guessed(d) /\ InPuzzle(d) /\ gameState.digitTracker[toString(d)] = "correct"
    /\ \E d \in 1 .. 9 :
          Guessed(d) /\ ~InPuzzle(d) /\ gameState.digitTracker[toString(d)] = "not-in-puzzle"

(***************************************************************************)
(* components/GameBoard.tsx: the win modal.                                *)
(***************************************************************************)
ModalOpen == board.showWinModal
\* a step of handlePlayAgain: the only one that empties a history
PlayedAgain == gameState.guesses # <<>> /\ gameState'.guesses = <<>>

\* the three step rules of the protocol
OpensOnWin ==
    (gameState.status # "won" /\ gameState'.status = "won") => ModalOpen'
StaysClosed ==
    (/\ board.modalClosedManually /\ ~ModalOpen
     /\ gameState.status = "won" /\ gameState'.status = "won") => ~ModalOpen'
PlayAgainResets ==
    PlayedAgain => /\ board' = InitialBoard
                   /\ gameState' = InitialGameState
                   /\ \A r \in Rows : values'[r] = EmptyRow

\* C30: the win modal opens when the status becomes 'won'; closed by hand it
\* stays closed for as long as the game stays won; Play Again closes it,
\* resets the session to 'playing' with empty rows and clears the
\* closed-by-hand flag; and the modal is never open while the status is
\* 'playing' or 'lost'.
C30_WinModalProtocol ==
    /\ [](ModalOpen => gameState.status = "won")
    /\ [][OpensOnWin /\ StaysClosed /\ PlayAgainResets]_vars
====
